---- MODULE Spec2Model ----
(***************************************************************************)
(* TypingAnimation (src/TypingAnimation.tsx): one mounted instance of the  *)
(* component, its four pieces of React state, its two effects (the reveal  *)
(* timeout and the cursor blink interval) and the parent that re-renders   *)
(* it with new props or unmounts it.                                       *)
(*                                                                         *)
(* Time is explicit.  A pending timer carries the time that is left until  *)
(* it is due; Advance lets time pass, never beyond a due timer, and a      *)
(* timer's callback runs when nothing is left.  A state change commits a   *)
(* re-render and runs the effects whose dependency list changed, all in    *)
(* the step that made the change.                                          *)
(***************************************************************************)
EXTENDS Integers, Sequences, FiniteSets, TLC

VARIABLES
    text, speed, delay, onComplete, hideCursorWhenComplete,  \* props
    displayedText, currentIndex, showCursor, isComplete,     \* useState
    timer,          \* the reveal effect's setTimeout, with what its closure captured
    cursorTimer,    \* the cursor effect's setInterval: time left to the next toggle
    orphans,        \* pending timers that an effect replaced without clearing them
    mounted,        \* the instance is mounted
    dom,            \* what the last render returned
    now,            \* time since mount (saturates at MaxTime)
    calls,          \* onComplete invocations so far
    wakeups,        \* reveal timer callbacks run so far
    lastToggle,     \* when the blink callback last ran (NoToggle before the first)
    rerenders       \* parent re-renders with changed props so far

props == <<text, speed, delay, onComplete, hideCursorWhenComplete>>
state == <<displayedText, currentIndex, showCursor, isComplete>>
vars == <<text, speed, delay, onComplete, hideCursorWhenComplete,
          displayedText, currentIndex, showCursor, isComplete,
          timer, cursorTimer, orphans, mounted, dom, now, calls, wakeups,
          lastToggle, rerenders>>

----------------------------------------------------------------------------
(* Bounds of the model *)

MaxTime == 1200       \* the clock saturates here
MaxRerenders == 2     \* parent re-renders that change a prop

Min(a, b) == IF a < b THEN a ELSE b

(* The inputs *)
Hi == <<"H", "i">>
Hey == <<"H", "e", "y">>
Texts == {<< >>, Hi, Hey}
Speeds == {10, 300}
Delays == {0, 50}
NoCallback == "undefined"
Callbacks == {NoCallback, "f", "g"}     \* function identities of onComplete

----------------------------------------------------------------------------
(* Program constants *)

BlinkPeriod == 500

\* the longest single passage of time: the parent can act (re-render,
\* unmount) at these instants and at every instant a timer is due
Quantum == BlinkPeriod \div 2
InitialText == << >>
InitialIndex == 0
InitialShowCursor == TRUE
InitialIsComplete == FALSE

NoTimer == [pending |-> FALSE]
NoToggle == -1

----------------------------------------------------------------------------
(* The reveal effect *)

\* (slips: the initial delay ignored; speed ignored)
WaitAlwaysSpeed(idx, d, s) == s
WaitAlwaysDelay(idx, d, s) == d
\* currentIndex === 0 ? delay : speed
Wait(idx, d, s) == IF idx = 0 THEN d ELSE s

\* the effect body: setTimeout(callback, wait); the callback closes over
\* currentIndex, text and onComplete of the render that ran the effect
RevealEffect(idx, t, s, d, cb) ==
    [pending |-> TRUE, rem |-> Wait(idx, d, s),
     text |-> t, currentIndex |-> idx, onComplete |-> cb]

\* (slips: text left out of the list; showCursor put into it; onComplete
\* left out)
RevealDepsNoText == <<currentIndex, speed, delay, onComplete>>
RevealDepsNoCallback == <<currentIndex, text, speed, delay>>
RevealDepsWithCursor == <<currentIndex, text, speed, delay, onComplete, showCursor>>
\* the effect's dependency list
RevealDeps == <<currentIndex, text, speed, delay, onComplete>>

\* (slips: one index too far; one index short; !== for <)
MoreToRevealOffByOne(idx, t) == idx <= Len(t)
MoreToRevealNotEqual(idx, t) == idx # Len(t)
MoreToRevealEarlyEnd(idx, t) == idx + 1 < Len(t)
\* the callback's test: currentIndex < text.length
MoreToReveal(idx, t) == idx < Len(t)

\* text[currentIndex]: the character at a 0-based index, undefined beyond the end
CharAt(t, idx) == IF idx + 1 \in DOMAIN t THEN t[idx + 1] ELSE "undefined"

\* (slip: nothing appended)
AppendCharNone(prev, t, idx) == prev
\* prev + text[currentIndex]
AppendChar(prev, t, idx) == prev \o <<CharAt(t, idx)>>

\* whether the callback invokes onComplete
Invokes(cb) == cb # NoCallback

----------------------------------------------------------------------------
(* The cursor effect *)

\* (slip: isComplete left out of the list)
CursorDepsNoComplete == <<hideCursorWhenComplete>>
\* the effect's dependency list
CursorDeps == <<hideCursorWhenComplete, isComplete>>

\* (slip: hideCursorWhenComplete ignored)
CursorStoppedOnComplete(hide, complete) == complete
\* the early return of the effect: hideCursorWhenComplete && isComplete
CursorStopped(hide, complete) == hide /\ complete

\* the effect body: what it leaves of the interval and of showCursor
CursorEffect(hide, complete, show) ==
    IF CursorStopped(hide, complete)
    THEN [cursorTimer |-> NoTimer, showCursor |-> FALSE]
    ELSE [cursorTimer |-> [pending |-> TRUE, rem |-> BlinkPeriod], showCursor |-> show]

----------------------------------------------------------------------------
(* The render *)

\* (slip: the caret only made transparent, never omitted)
CaretRenderedAlways(hide, complete) == TRUE
\* the caret's condition: !hideCursorWhenComplete || !isComplete
CaretRendered(hide, complete) == ~hide \/ ~complete

Render(dt, hide, complete, show) ==
    [mounted |-> TRUE,
     text |-> dt,
     caret |-> CaretRendered(hide, complete),
     opacity |-> IF CaretRendered(hide, complete) /\ show THEN 1 ELSE 0]

Unmounted == [mounted |-> FALSE, text |-> << >>, caret |-> FALSE, opacity |-> 0]

----------------------------------------------------------------------------
(* Commit: after a change of state or props the component renders again,
   and each effect whose dependencies changed is cleaned up and run again.
   `left` is the reveal timeout that is still pending before the commit
   (none, in the commit that follows the timeout's own callback). *)

\* (slip: no cleanup returned)
CleanupKeepsTimeout(t) == t
\* both effects' cleanups: clearTimeout(timer), clearInterval(cursorTimer)
Cleanup(t) == NoTimer

\* what the cleanup of an effect's previous run leaves pending of its timer
Uncleared(kind, t) ==
    IF Cleanup(t).pending THEN {[of |-> kind, t |-> Cleanup(t)]} ELSE {}

CommitReveal(left) ==
    timer' = IF RevealDeps' # RevealDeps
             THEN RevealEffect(currentIndex', text', speed', delay', onComplete')
             ELSE left

\* `show` is showCursor as the step's own setState calls leave it
CommitCursor(show, interval) ==
    IF CursorDeps' # CursorDeps
    THEN LET e == CursorEffect(hideCursorWhenComplete', isComplete', show)
         IN /\ cursorTimer' = e.cursorTimer
            /\ showCursor' = e.showCursor
    ELSE /\ cursorTimer' = interval
         /\ showCursor' = show

\* `rest` are the orphans the step itself leaves pending
CommitOrphans(rest, left, interval) ==
    orphans' = rest
        \cup (IF RevealDeps' # RevealDeps THEN Uncleared("timeout", left) ELSE {})
        \cup (IF CursorDeps' # CursorDeps THEN Uncleared("interval", interval) ELSE {})

CommitRender ==
    dom' = Render(displayedText', hideCursorWhenComplete', isComplete', showCursor')

----------------------------------------------------------------------------
Init ==
    /\ text \in Texts
    /\ speed \in Speeds
    /\ delay \in Delays
    /\ onComplete \in Callbacks
    /\ hideCursorWhenComplete \in BOOLEAN
    /\ displayedText = InitialText
    /\ currentIndex = InitialIndex
    /\ showCursor = InitialShowCursor
    /\ isComplete = InitialIsComplete
    /\ timer = RevealEffect(currentIndex, text, speed, delay, onComplete)
    /\ cursorTimer = CursorEffect(hideCursorWhenComplete, isComplete, showCursor).cursorTimer
    /\ orphans = {}
    /\ mounted = TRUE
    /\ dom = Render(displayedText, hideCursorWhenComplete, isComplete, showCursor)
    /\ now = 0
    /\ calls = 0
    /\ wakeups = 0
    /\ lastToggle = NoToggle
    /\ rerenders = 0

----------------------------------------------------------------------------
(* Time *)

Due(t) == t.pending /\ t.rem = 0
Left(t) == IF t.pending THEN t.rem ELSE Quantum
Pass(t, d) == IF t.pending THEN [t EXCEPT !.rem = @ - d] ELSE t

\* the least of a set of times
Least(S) == CHOOSE x \in S : \A y \in S : x <= y

Advance ==
    LET d == Least({Quantum, Left(timer), Left(cursorTimer)}
                   \cup {Left(o.t) : o \in orphans})
    IN /\ d > 0
       /\ timer' = Pass(timer, d)
       /\ cursorTimer' = Pass(cursorTimer, d)
       /\ orphans' = {[o EXCEPT !.t = Pass(o.t, d)] : o \in orphans}
       /\ now' = Min(now + d, MaxTime)
       /\ UNCHANGED <<props, state, mounted, dom, calls, wakeups, lastToggle, rerenders>>

----------------------------------------------------------------------------
(* The reveal timeout's callback *)

\* the pending timers of each kind: the one the effect's last run set, and
\* the orphans
Timeouts == {timer} \cup {o.t : o \in {p \in orphans : p.of = "timeout"}}
Intervals == {cursorTimer} \cup {o.t : o \in {p \in orphans : p.of = "interval"}}

RevealFire ==
    \E t \in Timeouts :
        LET left == IF t = timer THEN NoTimer ELSE timer
        IN /\ Due(t)
           /\ wakeups' = wakeups + 1
           /\ IF MoreToReveal(t.currentIndex, t.text)
              THEN /\ displayedText' = AppendChar(displayedText, t.text, t.currentIndex)
                   /\ currentIndex' = currentIndex + 1
                   /\ UNCHANGED <<isComplete, calls>>
              ELSE /\ isComplete' = TRUE
                   /\ calls' = IF Invokes(t.onComplete) THEN calls + 1 ELSE calls
                   /\ UNCHANGED <<displayedText, currentIndex>>
           /\ UNCHANGED <<props, mounted, now, lastToggle, rerenders>>
           /\ CommitCursor(showCursor, cursorTimer)
           /\ CommitReveal(left)
           /\ CommitOrphans(orphans \ {[of |-> "timeout", t |-> t]}, left, cursorTimer)
           /\ CommitRender

(* The blink interval's callback *)

Toggle(prev) == ~prev

CursorFire ==
    \E t \in Intervals :
        LET again == [t EXCEPT !.rem = BlinkPeriod]
            interval == IF t = cursorTimer THEN again ELSE cursorTimer
            rest == IF t = cursorTimer
                    THEN orphans
                    ELSE (orphans \ {[of |-> "interval", t |-> t]})
                             \cup {[of |-> "interval", t |-> again]}
        IN /\ Due(t)
           /\ lastToggle' = now
           /\ UNCHANGED <<props, displayedText, currentIndex, isComplete,
                          mounted, now, calls, wakeups, rerenders>>
           /\ CommitCursor(Toggle(showCursor), interval)
           /\ CommitReveal(timer)
           /\ CommitOrphans(rest, timer, interval)
           /\ CommitRender

----------------------------------------------------------------------------
(* The parent *)

Rerender ==
    /\ mounted
    /\ rerenders < MaxRerenders
    /\ rerenders' = rerenders + 1
    /\ UNCHANGED <<displayedText, currentIndex, isComplete, mounted, now, calls,
                   wakeups, lastToggle>>
    /\ CommitCursor(showCursor, cursorTimer)
    /\ CommitReveal(timer)
    /\ CommitOrphans(orphans, timer, cursorTimer)
    /\ CommitRender

ChangeText ==
    /\ \E t \in Texts \ {text} : text' = t
    /\ UNCHANGED <<speed, delay, onComplete, hideCursorWhenComplete>>
    /\ Rerender

ChangeSpeed ==
    /\ \E s \in Speeds \ {speed} : speed' = s
    /\ UNCHANGED <<text, delay, onComplete, hideCursorWhenComplete>>
    /\ Rerender

ChangeDelay ==
    /\ \E d \in Delays \ {delay} : delay' = d
    /\ UNCHANGED <<text, speed, onComplete, hideCursorWhenComplete>>
    /\ Rerender

ChangeOnComplete ==
    /\ \E f \in Callbacks \ {onComplete} : onComplete' = f
    /\ UNCHANGED <<text, speed, delay, hideCursorWhenComplete>>
    /\ Rerender

ChangeHideCursor ==
    /\ hideCursorWhenComplete' = ~hideCursorWhenComplete
    /\ UNCHANGED <<text, speed, delay, onComplete>>
    /\ Rerender

Unmount ==
    /\ mounted
    /\ mounted' = FALSE
    /\ timer' = Cleanup(timer)
    /\ cursorTimer' = Cleanup(cursorTimer)
    /\ dom' = Unmounted
    /\ UNCHANGED <<props, state, orphans, now, calls, wakeups, lastToggle, rerenders>>

----------------------------------------------------------------------------
Next ==
    \/ Advance
    \/ RevealFire
    \/ CursorFire
    \/ ChangeText
    \/ ChangeSpeed
    \/ ChangeDelay
    \/ ChangeOnComplete
    \/ ChangeHideCursor
    \/ Unmount

Spec == Init /\ [][Next]_vars

\* text keeps its mount-time value
NextSameText ==
    \/ Advance
    \/ RevealFire
    \/ CursorFire
    \/ ChangeSpeed
    \/ ChangeDelay
    \/ ChangeOnComplete
    \/ ChangeHideCursor
    \/ Unmount

SpecSameText == Init /\ [][NextSameText]_vars

\* text, speed and delay keep their mount-time values
NextStable ==
    \/ Advance
    \/ RevealFire
    \/ CursorFire
    \/ ChangeOnComplete
    \/ ChangeHideCursor
    \/ Unmount

SpecStable == Init /\ [][NextStable]_vars

\* all props constant, never unmounted
NextFixed ==
    \/ Advance
    \/ RevealFire
    \/ CursorFire

SpecFixed == Init /\ [][NextFixed]_vars

\* time passes and a due timer's callback runs
Fairness == WF_vars(Advance) /\ WF_vars(RevealFire) /\ WF_vars(CursorFire)

LiveFixed == SpecFixed /\ Fairness

LiveSpec == Spec /\ Fairness

----------------------------------------------------------------------------
(* Claims *)

\* onComplete is supplied; how often it is to be invoked
Supplied == onComplete # NoCallback
Expected == IF Supplied THEN 1 ELSE 0

\* C1: with text, speed and delay at their mount-time values (the parent may
\* re-render with a new onComplete identity or another hideCursorWhenComplete),
\* onComplete is invoked at most once over the instance's lifetime.
C1_CompleteAtMostOnce == calls <= 1

\* the reveal has ended
C2_Done ==
    /\ displayedText = text
    /\ dom.text = text
    /\ isComplete
    /\ calls = Expected
    /\ ~timer.pending

\* C2: with all props constant and the widget mounted for good, under fairness
\* of the timers the reveal terminates: isComplete only holds with the full
\* text displayed, and from some point on the full text is displayed,
\* isComplete holds, onComplete (if supplied) has been invoked once and no
\* reveal timeout is pending.
C2_RevealTerminates ==
    /\ [](isComplete => displayedText = text)
    /\ [](calls > 0 => isComplete)
    /\ <>[]C2_Done

\* "Hey" is revealed and its completion reported, after four wake-ups
C2_Witness == C2_Done /\ text = Hey /\ Supplied /\ wakeups = 4

\* C3: once the widget is unmounted neither the reveal timeout nor the blink
\* interval is pending, and no later step changes displayedText, currentIndex,
\* showCursor or isComplete, invokes onComplete or renders.
C3_NothingAfterUnmount ==
    /\ [](~mounted => ~timer.pending /\ ~cursorTimer.pending)
    /\ [][~mounted => /\ UNCHANGED <<state, calls, wakeups, dom>>
                      /\ ~mounted']_vars

\* unmounted between the last character and the terminal wake-up, long ago
C3_Witness ==
    /\ ~mounted
    /\ text = Hi /\ currentIndex = 2 /\ ~isComplete
    /\ Supplied /\ calls = 0
    /\ now = MaxTime

\* C4: with hideCursorWhenComplete true, the caret node is rendered exactly
\* while isComplete is false, and once it has been omitted it is omitted from
\* every later render for as long as hideCursorWhenComplete stays true.
C4_CaretOmittedOnceComplete ==
    /\ [](mounted /\ hideCursorWhenComplete => (dom.caret <=> ~isComplete))
    /\ [][(hideCursorWhenComplete /\ isComplete /\ hideCursorWhenComplete')
              => ~dom'.caret]_vars

\* complete and caret omitted, and blink periods later still omitted
C4_Witness ==
    /\ mounted /\ hideCursorWhenComplete /\ isComplete
    /\ ~dom.caret /\ dom.text = Hey
    /\ now = MaxTime

\* C5: while hideCursorWhenComplete is false and the widget is mounted, a
\* blink interval is pending in every state, and in a run where that holds
\* for good showCursor toggles infinitely often, before and after isComplete
\* becomes true.
C5_BlinkerRunsForLife ==
    /\ [](mounted /\ ~hideCursorWhenComplete => cursorTimer.pending)
    /\ [](mounted /\ ~hideCursorWhenComplete) => ([]<>showCursor /\ []<>~showCursor)

\* the caret was toggled off before completion (at 500, completion at 600)
\* and is on again after it
C5_Witness ==
    /\ mounted /\ ~hideCursorWhenComplete /\ rerenders = 0
    /\ text = Hi /\ speed = 300 /\ delay = 0
    /\ isComplete /\ showCursor /\ dom.opacity = 1

\* when the next wake-up is due, with props constant
C6_NextWakeup == delay + wakeups * speed

C6_Schedule ==
    /\ wakeups <= Len(text) + 1
    /\ timer.pending =>
          /\ wakeups <= Len(text)
          /\ currentIndex = wakeups
          /\ ~isComplete /\ calls = 0
          /\ now + timer.rem = C6_NextWakeup
    /\ ~timer.pending =>
          /\ wakeups = Len(text) + 1
          /\ currentIndex = Len(text)
          /\ isComplete /\ calls = Expected

\* C6: with props constant the reveal driver runs exactly len(text)+1
\* wake-ups, the k-th of them at delay + (k-1)*speed after mount: the first
\* len(text) reveal one character each, the last one sets isComplete and
\* invokes onComplete, at delay + len(text)*speed.
C6_WakeupTimes ==
    /\ [](now < MaxTime => C6_Schedule)
    /\ [][(now < MaxTime /\ wakeups' # wakeups) =>
              /\ wakeups' = wakeups + 1
              /\ now = C6_NextWakeup]_vars
    /\ [][(now < MaxTime /\ (isComplete' # isComplete \/ calls' # calls)) =>
              /\ now = delay + Len(text) * speed
              /\ wakeups' = Len(text) + 1]_vars

\* the terminal wake-up of "Hey" has just run, at 50 + 3*300
C6_Witness ==
    /\ text = Hey /\ speed = 300 /\ delay = 50 /\ Supplied
    /\ isComplete /\ calls = 1 /\ wakeups = 4 /\ now = 950

ScenarioA == text = Hi /\ speed = 10 /\ delay = 0

\* C7: Scenario A, text="Hi", speed=10, delay=0, props constant.  A callback
\* runs no earlier than it is due, so when the clock reaches t the wake-up due
\* at t has yet to run: "" is displayed at t=0, "H" when t=10 is reached, "Hi"
\* when t=20 is reached, and after t=20 isComplete is true and onComplete has
\* been invoked once.  (wakeups tells the two states of an instant apart: the
\* wake-up due at 0, 10 or 20 has run or has not.)
C7_ScenarioA ==
    ScenarioA =>
        /\ now = 0 => wakeups \in {0, 1}
        /\ (now = 0 /\ wakeups = 0) => Due(timer) /\ dom.text = << >>
        /\ now \in 1..10 => wakeups \in {1, 2}
        /\ (now \in 1..10 /\ wakeups = 1) => dom.text = <<"H">> /\ ~isComplete
        /\ now \in 11..20 => wakeups \in {2, 3}
        /\ (now \in 11..20 /\ wakeups = 2) => dom.text = Hi /\ ~isComplete /\ calls = 0
        /\ now > 20 => dom.text = Hi /\ isComplete /\ calls = Expected /\ wakeups = 3

\* the clock has reached 10 with "H" displayed and the second wake-up due
C7_Witness ==
    /\ ScenarioA /\ Supplied
    /\ now = 10 /\ Due(timer) /\ dom.text = <<"H">> /\ wakeups = 1

\* C8: for an empty text with props constant one reveal wake-up is scheduled;
\* it runs delay after mount, sets isComplete and invokes onComplete, and the
\* displayed text is "" in every state.
C8_EmptyText ==
    /\ [](text = << >> =>
            /\ displayedText = << >> /\ dom.text = << >>
            /\ currentIndex = 0
            /\ wakeups <= 1
            /\ timer.pending <=> wakeups = 0
            /\ (timer.pending /\ now < MaxTime) => now + timer.rem = delay
            /\ wakeups = 1 => isComplete /\ calls = Expected
            /\ wakeups = 0 => ~isComplete /\ calls = 0)
    /\ [][(text = << >> /\ now < MaxTime /\ wakeups' # wakeups) => now = delay]_vars

\* Scenario B: the only wake-up has run, at t = 50, and time has passed since
C8_Witness ==
    /\ text = << >> /\ delay = 50 /\ speed = 300 /\ Supplied
    /\ isComplete /\ calls = 1 /\ wakeups = 1 /\ ~timer.pending
    /\ now = MaxTime

\* C9: currentIndex starts at 0, changes only by +1 and only in a reveal
\* wake-up, and a step that leaves the text prop as it is never takes it
\* beyond len(text): with the text prop constant 0 <= currentIndex <= len(text)
\* in every reachable state.
C9_IndexMonotoneBounded ==
    /\ currentIndex = 0
    /\ [](currentIndex >= 0)
    /\ [][currentIndex' # currentIndex =>
              /\ currentIndex' = currentIndex + 1
              /\ wakeups' = wakeups + 1]_vars
    /\ [][(text' = text /\ currentIndex <= Len(text)) =>
              currentIndex' <= Len(text')]_vars

\* the index has reached the end after re-renders that changed other props
C9_Witness ==
    /\ text = Hey /\ currentIndex = 3 /\ rerenders = MaxRerenders /\ wakeups >= 3

\* C10 as claimed: isComplete is true if and only if currentIndex = len(text).
C10_CompleteIffAtEnd ==
    mounted => (isComplete <=> currentIndex = Len(text))

\* C10 amended: with the text prop at its mount-time value, isComplete implies
\* currentIndex = len(text); conversely currentIndex = len(text) holds with
\* isComplete still false while the terminal wake-up is pending.
C10_CompleteImpliesAtEnd ==
    mounted =>
        /\ isComplete => currentIndex = Len(text)
        /\ (currentIndex = Len(text) /\ ~isComplete) =>
              /\ timer.pending
              /\ ~MoreToReveal(timer.currentIndex, timer.text)

\* all of "Hey" is revealed and the terminal wake-up has not run yet
C10_Witness ==
    /\ mounted /\ text = Hey /\ currentIndex = 3 /\ ~isComplete
    /\ timer.pending /\ timer.rem > 0

\* text[0:currentIndex]: the first n characters of t (all of t when n exceeds it)
Prefix(t, n) == SubSeq(t, 1, Min(n, Len(t)))

\* C11: in every reachable state, whatever reveal wake-ups, blink toggles and
\* prop changes came before, the rendered text equals text[0:currentIndex] of
\* the current text prop.
C11_DisplayedIsPrefix ==
    mounted => /\ displayedText = Prefix(text, currentIndex)
               /\ dom.text = Prefix(text, currentIndex)

\* C12: in every reachable state at most one reveal timeout and at most one
\* blink interval are pending: an effect that runs again has cleared the timer
\* of its previous run before it sets the next, so no timer is left pending
\* besides the one of each effect's last run.
C12_OneTimerEach ==
    /\ Cardinality({t \in Timeouts : t.pending}) <= 1
    /\ Cardinality({t \in Intervals : t.pending}) <= 1
    /\ orphans = {}

\* both effects have run again (a new onComplete mid-reveal, then completion
\* with the caret kept) and each has one timer pending
C12_Witness ==
    /\ mounted /\ rerenders >= 1 /\ ~hideCursorWhenComplete
    /\ isComplete /\ cursorTimer.pending
    /\ timer.pending /\ timer.onComplete = "g" /\ timer.rem > 0

\* C13: a re-render that changes text, speed or delay cancels the pending
\* reveal wake-up and schedules exactly one new one, which captures the new
\* text and waits the new delay if currentIndex is 0 and the new speed
\* otherwise; currentIndex is left as it is, and no pending wake-up holds an
\* old text, index or callback.
C13_Rescheduled ==
    /\ [](\A t \in Timeouts :
            t.pending => /\ t = timer
                         /\ t.text = text
                         /\ t.currentIndex = currentIndex
                         /\ t.onComplete = onComplete)
    /\ [][(text' # text \/ speed' # speed \/ delay' # delay) =>
              /\ timer'.pending
              /\ timer'.rem = (IF currentIndex = 0 THEN delay' ELSE speed')
              /\ timer'.text = text'
              /\ currentIndex' = currentIndex
              /\ UNCHANGED <<displayedText, isComplete, wakeups, calls>>]_vars

\* "Hi" was revealed, then the text became "Hey": the wake-up now pending
\* holds "Hey" and index 2
C13_Witness ==
    /\ mounted /\ text = Hey /\ displayedText = Hi /\ currentIndex = 2
    /\ ~isComplete
    /\ timer.pending /\ timer.text = Hey /\ timer.rem = speed

\* C14: when the text prop changes to a string no longer than currentIndex, a
\* wake-up is pending that will reveal nothing, and the wake-up that runs with
\* currentIndex >= len(text) sets isComplete and invokes onComplete and leaves
\* displayedText and currentIndex exactly as they were.
C14_ShortTextCompletes ==
    /\ [][(text' # text /\ Len(text') <= currentIndex) =>
              /\ timer'.pending
              /\ timer'.currentIndex >= Len(timer'.text)
              /\ UNCHANGED <<displayedText, currentIndex, isComplete, calls>>]_vars
    /\ [][(wakeups' # wakeups /\ currentIndex >= Len(text)) =>
              /\ isComplete'
              /\ calls' = calls + Expected
              /\ UNCHANGED <<displayedText, currentIndex>>
              /\ dom'.text = displayedText]_vars

\* "Hey" was revealed, the text became "Hi", and the wake-up after that
\* reported the only completion with "Hey" still displayed
C14_Witness ==
    /\ mounted /\ text = Hi /\ displayedText = Hey /\ dom.text = Hey
    /\ currentIndex = 3 /\ rerenders = 1
    /\ isComplete /\ Supplied /\ calls = 1 /\ wakeups = 4 /\ ~timer.pending

\* C15: in every reachable state of a mounted instance a blink interval is
\* pending if and only if not (hideCursorWhenComplete and isComplete); and
\* whenever both hold showCursor is false, and stays false for as long as they
\* hold: no toggle is scheduled.
C15_BlinkerActiveIff ==
    mounted =>
        /\ cursorTimer.pending <=> ~(hideCursorWhenComplete /\ isComplete)
        /\ (hideCursorWhenComplete /\ isComplete) =>
              /\ ~showCursor
              /\ \A t \in Intervals : ~t.pending

\* "Hi" completed within 70 time-units with the caret shown; blink periods
\* later showCursor is false and no interval is pending
C15_Witness ==
    /\ mounted /\ rerenders = 0 /\ text = Hi /\ speed = 10
    /\ hideCursorWhenComplete /\ isComplete
    /\ ~showCursor /\ ~cursorTimer.pending
    /\ now = MaxTime

\* C16: with hideCursorWhenComplete false and props constant, every two
\* consecutive toggles of showCursor are exactly 500 time-units apart,
\* the toggles just before and just after isComplete becomes true included.
C16_TogglesOnePeriodApart ==
    [][(showCursor' # showCursor /\ ~hideCursorWhenComplete
            /\ lastToggle # NoToggle /\ now < MaxTime) =>
          now - lastToggle = BlinkPeriod]_vars

\* C17: the two timers act on disjoint state.  A reveal wake-up that appends a
\* character leaves showCursor, isComplete and the pending blink interval as
\* they are (not cancelled, not restarted), and a blink toggle leaves
\* displayedText, currentIndex, isComplete and the pending reveal timeout as
\* they are (its remaining wait is not reset).
C17_DisjointState ==
    /\ [][currentIndex' # currentIndex =>
              UNCHANGED <<showCursor, isComplete, cursorTimer, lastToggle>>]_vars
    /\ [][(showCursor' # showCursor /\ cursorTimer'.pending) =>
              UNCHANGED <<displayedText, currentIndex, isComplete, timer,
                          calls, wakeups>>]_vars

\* the caret was toggled at t = 500, 200 into the 300 wait for the third
\* character, and 100 of that wait are still left
C17_Witness ==
    /\ mounted /\ text = Hey /\ speed = 300 /\ delay = 0 /\ rerenders = 0
    /\ now = 500 /\ lastToggle = 500 /\ ~showCursor
    /\ currentIndex = 2 /\ timer.pending /\ timer.rem = 100
    /\ cursorTimer.rem = BlinkPeriod

\* C18: when onComplete is invoked the instance has no timer pending: the
\* reveal timeout whose callback is running is the only timeout of the
\* instance, and no blink interval is pending.
C18_NoTimerAtCallback ==
    [][calls' # calls =>
          /\ \A t \in Timeouts : t.pending => Due(t)
          /\ Cardinality({t \in Timeouts : t.pending}) = 1
          /\ \A t \in Intervals : ~t.pending]_vars

\* C19: a re-render that changes only the identity of onComplete (text,
\* speed, delay and currentIndex unchanged) cancels the pending reveal
\* wake-up and schedules a new one with a full wait (delay at index 0,
\* speed otherwise) and the new callback: the time already waited is
\* discarded and nothing is revealed, so re-renders less than one wait
\* apart keep currentIndex where it is.
C19_CallbackChangeRestartsWait ==
    [][(/\ mounted
        /\ onComplete' # onComplete
        /\ text' = text /\ speed' = speed /\ delay' = delay
        /\ currentIndex' = currentIndex)
       => /\ timer'.pending
          /\ timer'.rem = (IF currentIndex = 0 THEN delay ELSE speed)
          /\ timer'.onComplete = onComplete'
          /\ \A o \in orphans' : o.of # "timeout"
          /\ wakeups' = wakeups
          /\ displayedText' = displayedText]_vars

\* two such re-renders, 250 apart, have each discarded 250 of a wait of
\* 300: at 500 the second character is still a full wait away
C19_Witness ==
    /\ mounted /\ text = Hi /\ speed = 300 /\ delay = 0
    /\ rerenders = 2 /\ now = 500
    /\ wakeups = 1 /\ currentIndex = 1 /\ displayedText = <<"H">>
    /\ timer.pending /\ timer.rem = 300

\* C20: isComplete is stable: once true it is true in every later state,
\* whatever props change. When text is then replaced by a longer string
\* the reveal timeout is pending again and its wake-ups append characters
\* while isComplete is still true; with hideCursorWhenComplete the caret
\* stays omitted meanwhile.
C20_CompleteIsStable ==
    [][/\ isComplete => isComplete'
       /\ (mounted' /\ isComplete' /\ currentIndex' < Len(text'))
              => timer'.pending
       /\ (isComplete /\ wakeups' # wakeups /\ currentIndex < Len(text))
              => /\ Len(displayedText') = Len(displayedText) + 1
                 /\ currentIndex' = currentIndex + 1
       /\ (mounted' /\ isComplete' /\ hideCursorWhenComplete')
              => ~dom'.caret]_vars

\* "Hi" was completed (third wake-up), text became "Hey", and the fourth
\* wake-up appended "y" with isComplete still true and the caret omitted
C20_Witness ==
    /\ mounted /\ isComplete /\ hideCursorWhenComplete
    /\ text = Hey /\ displayedText = <<"H", "i", "y">> /\ currentIndex = 3
    /\ wakeups = 4 /\ rerenders = 1
    /\ timer.pending
    /\ ~dom.caret

\* C21: when text is replaced, after completion, by a string longer than
\* currentIndex, the reveal resumes: the timeout is pending again for the
\* new text at currentIndex, each wake-up appends the new text's character
\* at currentIndex and schedules the next one speed later, and the wake-up
\* that finds currentIndex at the new length invokes onComplete again.
C21_ResumesOnLongerText ==
    [][/\ (mounted /\ isComplete /\ text' # text /\ currentIndex < Len(text'))
              => /\ timer'.pending
                 /\ timer'.text = text'
                 /\ timer'.currentIndex = currentIndex
                 /\ timer'.rem = (IF currentIndex = 0 THEN delay ELSE speed)
                 /\ displayedText' = displayedText
                 /\ calls' = calls
       /\ (isComplete /\ wakeups' # wakeups /\ currentIndex < Len(text))
              => /\ displayedText' = Append(displayedText, text[currentIndex + 1])
                 /\ currentIndex' = currentIndex + 1
                 /\ timer'.pending /\ timer'.rem = speed
                 /\ calls' = calls
       /\ (isComplete /\ wakeups' # wakeups /\ currentIndex >= Len(text))
              => /\ calls' = (IF onComplete # NoCallback THEN calls + 1 ELSE calls)
                 /\ displayedText' = displayedText
                 /\ currentIndex' = currentIndex]_vars

\* "Hi" was completed and reported (third wake-up), text became "Hey", the
\* fourth wake-up appended "y" and the fifth reported completion again
C21_Witness ==
    /\ mounted /\ isComplete
    /\ text = Hey /\ displayedText = <<"H", "i", "y">> /\ currentIndex = 3
    /\ wakeups = 5 /\ rerenders = 1
    /\ onComplete # NoCallback /\ calls = 2
    /\ ~timer.pending

====
